---- MODULE Spec2Model ----
(***************************************************************************)
(* Quiz supply pipeline of QuizGameUsingLLM: the /quiz handler             *)
(* generate_quiz of src/WebAPI.py (and its copy in                         *)
(* src/lambda_package/WebAPIboto3.py) with its five module globals.        *)
(*                                                                         *)
(* Three specifications share the state:                                   *)
(*   Spec        requests handled one at a time (each action is one whole  *)
(*               run of the handler along one of its return paths);        *)
(*   SpecThreads requests served by the threaded development server of     *)
(*               app.run, interleaved statement by statement (the handler  *)
(*               takes no lock);                                           *)
(*   SpecStartup the process of WebAPIboto3.py from its start, through      *)
(*               either entry point (python WebAPIboto3.py, or the Lambda   *)
(*               runtime calling lambda_handler), then one request at a     *)
(*               time.                                                      *)
(***************************************************************************)
EXTENDS Integers, Sequences, FiniteSets, Bags, TLC

(***************************************************************************)
(* Parameters of the handler, scaled down for model checking.  The source  *)
(* sets MINUTE_LIMIT = 55 (WebAPI.py:34), MINUTE_WINDOW = 60 (:35),        *)
(* DAILY_API_LIMIT = 500 (:39) and SET_SIZE = 5 (:46).                     *)
(***************************************************************************)
MINUTE_LIMIT == 2
MINUTE_WINDOW == 2
DAILY_API_LIMIT == 3
SET_SIZE == 2

\* Horizon of the clocks: time.time() ranges over 0..MaxTime seconds and
\* date.today() over the days 0..MaxDay.
MaxTime == 4
MaxDay == 1
\* Number of requests the threaded server accepts in SpecThreads.
MaxStarted == 3

Threads == {1, 2}

(***************************************************************************)
(* Generator responses.  A raw text is a sequence of tokens: the braces,   *)
(* "a" and "b" for the body of a well-formed quiz object, "x" for any      *)
(* other text.                                                             *)
(***************************************************************************)
QuizBodies == {"a", "b"}
RawTexts ==
  { <<"{", "a", "}">>,
    <<"x", "{", "b", "}", "x">>,
    <<"x">>,
    <<"{", "a">>,
    <<"a", "}">>,
    <<"}", "{">>,
    <<"{", "x", "}">>,
    <<"{", "a", "}", "{", "b", "}">> }

NoQuiz == "none"

VARIABLES
  request_timestamps,  \* WebAPI.py:36
  api_call_count,      \* WebAPI.py:40
  last_reset_date,     \* WebAPI.py:41
  QUIZ_CACHE,          \* WebAPI.py:44
  SERVING_POOL,        \* WebAPI.py:45
  clock,               \* latest value returned by time.time()
  day,                 \* latest value returned by date.today()
  result,              \* the response of the latest finished request
  drawn,               \* history: quizzes served from the current batch
  scenario,            \* history: admitted requests so far, -1 once a generation failed
  scenarioDay,         \* history: the date of the first admitted request
  burstStart,          \* history: time of the first request of the burst, -1 outside one
  burst,               \* history: admitted? of each request of the burst
  recent,              \* history: times of the admitted requests less than MINUTE_WINDOW old
  callsOnDay,          \* history: upstream calls made on the date of the latest request
  pc,                  \* SpecThreads: each thread's position in the handler
  loc,                 \* SpecThreads: each thread's locals
  started,             \* SpecThreads: requests accepted so far
  process,             \* how the module was started: "off", "main", "lambda", "exited"
  GOOGLE_AI_STUDIO_API_KEY,  \* WebAPIboto3.py:34 ("None" until loaded; api_key in WebAPI.py:20)
  model                \* WebAPIboto3.py:59 (WebAPI.py:23): "undefined" until loaded

vars == <<request_timestamps, api_call_count, last_reset_date, QUIZ_CACHE,
          SERVING_POOL, clock, day, result, drawn, scenario, scenarioDay,
          burstStart, burst, recent, callsOnDay, pc, loc, started, process,
          GOOGLE_AI_STUDIO_API_KEY, model>>

history == <<drawn, scenario, scenarioDay, burstStart, burst, recent,
             callsOnDay>>
threads == <<pc, loc, started>>
boot == <<process, GOOGLE_AI_STUDIO_API_KEY, model>>

----------------------------------------------------------------------------
(* Pure parts of the handler *)

\* a window one second short
Purge_ShortWindow(ts, now) == SelectSeq(ts, LAMBDA t : now - t < MINUTE_WINDOW - 1)
\* a rate limiter that never forgets a timestamp
Purge_None(ts, now) == ts
\* WebAPI.py:56  [t for t in request_timestamps if current_time - t < MINUTE_WINDOW]
Purge(ts, now) == SelectSeq(ts, LAMBDA t : now - t < MINUTE_WINDOW)

\* a rate limit that lets one request too many through
RateLimited_OffByOne(ts) == Len(ts) > MINUTE_LIMIT
\* WebAPI.py:57  len(request_timestamps) >= MINUTE_LIMIT
RateLimited(ts) == Len(ts) >= MINUTE_LIMIT

\* a rate check that records the timestamp before it decides
TimestampsAfter_Always(ts, now) == Append(Purge(ts, now), now)
\* WebAPI.py:56-60  request_timestamps when the rate check is over
TimestampsAfter(ts, now) ==
  IF RateLimited(Purge(ts, now)) THEN Purge(ts, now) ELSE Append(Purge(ts, now), now)

\* a server that never sees a new day
NewDay_Never(today, last) == FALSE
\* WebAPI.py:71  today > last_reset_date
NewDay(today, last) == today > last

\* a rollover that forgets to reset the counter
CountAfterRollover_NoReset(today, last, count) == count
\* WebAPI.py:71-72  api_call_count after the rollover check
CountAfterRollover(today, last, count) == IF NewDay(today, last) THEN 0 ELSE count

\* a rollover that forgets the new date
DateAfterRollover_Keep(today, last) == last
\* WebAPI.py:71-73  last_reset_date after the rollover check
DateAfterRollover(today, last) == IF NewDay(today, last) THEN today ELSE last

\* a budget that allows one call more
ShouldGenerate_BudgetInclusive(cache, count) ==
  Len(cache) < SET_SIZE /\ count <= DAILY_API_LIMIT
\* a generation decided on the stock alone, whatever the budget
ShouldGenerate_IgnoreBudget(cache, count) == Len(cache) < SET_SIZE
\* a stock that may grow to SET_SIZE + 1
ShouldGenerate_OffByOne(cache, count) ==
  Len(cache) <= SET_SIZE /\ count < DAILY_API_LIMIT
\* WebAPI.py:76  len(QUIZ_CACHE) < SET_SIZE and api_call_count < DAILY_API_LIMIT
ShouldGenerate(cache, count) == Len(cache) < SET_SIZE /\ count < DAILY_API_LIMIT

\* str.find: 0-based index of the first c in s, -1 when there is none
Find(s, c) ==
  IF \E i \in 1..Len(s) : s[i] = c
  THEN (CHOOSE i \in 1..Len(s) : s[i] = c /\ \A j \in 1..(i - 1) : s[j] # c) - 1
  ELSE -1

\* str.rfind: 0-based index of the last c in s, -1 when there is none
RFind(s, c) ==
  IF \E i \in 1..Len(s) : s[i] = c
  THEN (CHOOSE i \in 1..Len(s) : s[i] = c /\ \A j \in (i + 1)..Len(s) : s[j] # c) - 1
  ELSE -1

\* s[a:b] for 0 <= a, b <= len(s): empty when b <= a
Slice(s, a, b) == SubSeq(s, a + 1, b)

\* json.loads on a token string: an object is "{" body "}", the empty object
\* "{" "}" parses too; anything else raises
JsonLoads(s) ==
  IF Len(s) = 3 /\ s[1] = "{" /\ s[3] = "}" /\ s[2] \in QuizBodies
  THEN [ok |-> TRUE, value |-> s[2]]
  ELSE IF s = <<"{", "}">>
  THEN [ok |-> TRUE, value |-> "empty"]
  ELSE [ok |-> FALSE, value |-> NoQuiz]

\* WebAPI.py:86-93  the span from the first "{" to the last "}", parsed
ExtractQuiz(raw) ==
  LET json_start == Find(raw, "{")
      json_end == RFind(raw, "}") + 1
  IN IF json_start # -1 /\ json_end # 0
     THEN JsonLoads(Slice(raw, json_start, json_end))
     ELSE [ok |-> FALSE, value |-> NoQuiz]

\* a generation that serves its quiz without stocking it
StockAfter_Never(cache, raised, parsed) == cache
\* a generation that puts the new quiz in front of the stock
StockAfter_Prepend(cache, raised, parsed) ==
  IF ~raised /\ parsed.ok THEN <<parsed.value>> \o cache ELSE cache
\* a generation that caches whatever it got
StockAfter_Always(cache, raised, parsed) == Append(cache, parsed.value)
\* WebAPI.py:83-95  QUIZ_CACHE after the generation: appended to only when
\* the call returned and its text parsed
StockAfter(cache, raised, parsed) ==
  IF ~raised /\ parsed.ok THEN Append(cache, parsed.value) ELSE cache

\* list.pop(): the last item of a non-empty list
Last(list) == list[Len(list)]
\* list.pop(): the list without its last item
Front(list) == SubSeq(list, 1, Len(list) - 1)

\* a batch that moves the stock into the pool
StockAfterBatch_Clear(cache) == <<>>
\* a pool that is the stock itself, not a copy: the pop takes from the stock
StockAfterBatch_Alias(cache) == Front(cache)
\* WebAPI.py:108  SERVING_POOL = QUIZ_CACHE.copy(): the pool is a list of its
\* own, so QUIZ_CACHE is what it was once the batch has been popped from
StockAfterBatch(cache) == cache

\* the permutations of 1..n
Perms(n) == {p \in [1..n -> 1..n] : \A i, j \in 1..n : p[i] = p[j] => i = j}

\* a batch drawn with replacement (random.choices)
Shuffles_WithReplacement(cache) ==
  {[i \in 1..Len(cache) |-> cache[p[i]]] : p \in [1..Len(cache) -> 1..Len(cache)]}
\* WebAPI.py:108-109  QUIZ_CACHE.copy() followed by random.shuffle: any order
Shuffles(cache) == {[i \in 1..Len(cache) |-> cache[p[i]]] : p \in Perms(Len(cache))}

----------------------------------------------------------------------------
(* Responses: jsonify(...) with its status code *)

\* code, error, quiz: the response.  called, raised, text: whether the request
\* called the generator, whether that call raised, and the text it returned.
\* countBefore, found, gap: api_call_count and the length of
\* request_timestamps when the request came in, and the seconds since the
\* request before it (MINUTE_WINDOW + 1 for anything longer).
NoResult == [code |-> 0, error |-> "", quiz |-> NoQuiz, called |-> FALSE,
             raised |-> FALSE, text |-> <<>>, countBefore |-> 0, found |-> 0,
             gap |-> 0]
\* WebAPI.py:66, 97, 113  jsonify(quiz)
Ok(quiz, called, text) ==
  [NoResult EXCEPT !.code = 200, !.quiz = quiz, !.called = called, !.text = text]
\* WebAPI.py:59  rate limit error
RateLimitError == [NoResult EXCEPT !.code = 429, !.error = "rate"]
\* WebAPI.py:105  no quizzes available
ExhaustedError == [NoResult EXCEPT !.code = 429, !.error = "exhausted"]
\* WebAPI.py:99-102  the except branch of the generation
GenerationError(raised, text) ==
  [NoResult EXCEPT !.code = 500, !.error = "generation", !.called = TRUE,
                   !.raised = raised, !.text = text]
\* an exception outside the try block: the server's own 500 page
Unhandled == [NoResult EXCEPT !.code = 500, !.error = "IndexError"]
\* WebAPIboto3.py:98  Backend not fully initialized. API key missing.
NotInitializedError == [NoResult EXCEPT !.code = 500, !.error = "init"]

----------------------------------------------------------------------------
(* History kept for the claims *)

Min(a, b) == IF a < b THEN a ELSE b

\* the response r of a request that came in at now, with what it found
Seen(r, now) ==
  [r EXCEPT !.countBefore = api_call_count,
            !.found = Len(request_timestamps),
            !.gap = Min(now - clock, MINUTE_WINDOW + 1)]

\* a burst: the requests, at most MINUTE_LIMIT + 1, that arrive within
\* MINUTE_WINDOW of a first one which found no live timestamp
BurstStep(now, admitted) ==
  IF burstStart >= 0 /\ now - burstStart < MINUTE_WINDOW
     /\ Len(burst) < MINUTE_LIMIT + 1
  THEN burstStart' = burstStart /\ burst' = Append(burst, admitted)
  ELSE IF SelectSeq(request_timestamps, LAMBDA t : now - t < MINUTE_WINDOW) = <<>>
  THEN burstStart' = now /\ burst' = <<admitted>>
  ELSE burstStart' = -1 /\ burst' = <<>>

\* the admitted requests of the last MINUTE_WINDOW seconds, by their times
RecentStep(now, admitted) ==
  LET live == SelectSeq(recent, LAMBDA t : now - t < MINUTE_WINDOW)
  IN recent' = IF admitted THEN Append(live, now) ELSE live

\* the upstream calls made on the date today, this request's included
CallsStep(today, called) ==
  callsOnDay' = (IF today > day THEN 0 ELSE callsOnDay)
                  + (IF called THEN 1 ELSE 0)

\* admitted requests so far and the date of the first, while every
\* generation succeeded; -1 afterwards
ScenarioStep(today, success) ==
  IF scenario >= 0 /\ scenario < 2 * SET_SIZE + 1 /\ success
  THEN /\ scenario' = scenario + 1
       /\ scenarioDay' = IF scenario = 0 THEN today ELSE scenarioDay
  ELSE scenario' = -1 /\ scenarioDay' = -1

\* the locals of a request that has not started
NoLocals == [current_time |-> 0, filtered |-> <<>>, today |-> 0, count |-> 0]

\* WebAPI.py:34-46  the globals and the history as the module body leaves them
Fresh ==
  /\ request_timestamps = <<>>
  /\ api_call_count = 0
  /\ last_reset_date = 0
  /\ QUIZ_CACHE = <<>>
  /\ SERVING_POOL = <<>>
  /\ clock = 0
  /\ day = 0
  /\ result = NoResult
  /\ drawn = <<>>
  /\ scenario = 0
  /\ scenarioDay = -1
  /\ burstStart = -1
  /\ burst = <<>>
  /\ recent = <<>>
  /\ callsOnDay = 0
  /\ pc = [t \in Threads |-> "idle"]
  /\ loc = [t \in Threads |-> NoLocals]
  /\ started = 0

\* WebAPI.py:18-30, 117-118  the server is up: the try block loaded the key
\* and the model, or the process would have exited
Loaded ==
  /\ process = "main"
  /\ GOOGLE_AI_STUDIO_API_KEY = "key"
  /\ model = "loaded"

Init == Fresh /\ Loaded

----------------------------------------------------------------------------
(* Spec: one request at a time.  Each action is the whole handler along    *)
(* one return path; now and today are what time.time() and date.today()    *)
(* return during the request.                                              *)

\* WebAPI.py:55-59  the request is rejected by the rate limit
Reject(now, today) ==
  /\ RateLimited(Purge(request_timestamps, now))
  /\ request_timestamps' = TimestampsAfter(request_timestamps, now)
  /\ result' = Seen(RateLimitError, now)
  /\ clock' = now /\ day' = today
  /\ BurstStep(now, FALSE)
  /\ RecentStep(now, FALSE)
  /\ CallsStep(today, FALSE)
  /\ UNCHANGED <<api_call_count, last_reset_date, QUIZ_CACHE, SERVING_POOL,
                 drawn, scenario, scenarioDay, threads, boot>>

\* WebAPI.py:55-66  admitted and served from the pool
ServeFromPool(now, today) ==
  /\ ~RateLimited(Purge(request_timestamps, now))
  /\ request_timestamps' = TimestampsAfter(request_timestamps, now)
  /\ SERVING_POOL # <<>>
  /\ SERVING_POOL' = Front(SERVING_POOL)
  /\ result' = Seen(Ok(Last(SERVING_POOL), FALSE, <<>>), now)
  /\ clock' = now /\ day' = today
  /\ BurstStep(now, TRUE)
  /\ RecentStep(now, TRUE)
  /\ CallsStep(today, FALSE)
  /\ ScenarioStep(today, TRUE)
  /\ drawn' = Append(drawn, Last(SERVING_POOL))
  /\ UNCHANGED <<api_call_count, last_reset_date, QUIZ_CACHE, threads, boot>>

\* WebAPI.py:55-102  admitted, pool empty, a quiz is generated (or fails to be).
\* raised: the upstream call (or response.text) raises; raw: the text returned
Generate(now, today, raised, raw) ==
  LET count == CountAfterRollover(today, last_reset_date, api_call_count)
      parsed == ExtractQuiz(raw)
  IN
  /\ ~RateLimited(Purge(request_timestamps, now))
  /\ request_timestamps' = TimestampsAfter(request_timestamps, now)
  /\ SERVING_POOL = <<>>
  /\ last_reset_date' = DateAfterRollover(today, last_reset_date)
  /\ ShouldGenerate(QUIZ_CACHE, count)
  /\ api_call_count' = count + 1
  /\ QUIZ_CACHE' = StockAfter(QUIZ_CACHE, raised, parsed)
  /\ result' = Seen(IF ~raised /\ parsed.ok
                    THEN Ok(parsed.value, TRUE, raw)
                    ELSE GenerationError(raised, IF raised THEN <<>> ELSE raw),
                    now)
  /\ clock' = now /\ day' = today
  /\ BurstStep(now, TRUE)
  /\ RecentStep(now, TRUE)
  /\ CallsStep(today, TRUE)
  /\ ScenarioStep(today, ~raised /\ parsed.ok)
  /\ drawn' = <<>>
  /\ UNCHANGED <<SERVING_POOL, threads, boot>>

\* WebAPI.py:55-105  admitted, pool empty, nothing to generate and nothing in stock
Exhausted(now, today) ==
  LET count == CountAfterRollover(today, last_reset_date, api_call_count) IN
  /\ ~RateLimited(Purge(request_timestamps, now))
  /\ request_timestamps' = TimestampsAfter(request_timestamps, now)
  /\ SERVING_POOL = <<>>
  /\ last_reset_date' = DateAfterRollover(today, last_reset_date)
  /\ api_call_count' = count
  /\ ~ShouldGenerate(QUIZ_CACHE, count)
  /\ QUIZ_CACHE = <<>>
  /\ result' = Seen(ExhaustedError, now)
  /\ clock' = now /\ day' = today
  /\ BurstStep(now, TRUE)
  /\ RecentStep(now, TRUE)
  /\ CallsStep(today, FALSE)
  /\ ScenarioStep(today, FALSE)
  /\ drawn' = <<>>
  /\ UNCHANGED <<QUIZ_CACHE, SERVING_POOL, threads, boot>>

\* WebAPI.py:55-113  admitted, pool empty, a new batch is built and its last item served
Batch(now, today, shuffled) ==
  LET count == CountAfterRollover(today, last_reset_date, api_call_count) IN
  /\ ~RateLimited(Purge(request_timestamps, now))
  /\ request_timestamps' = TimestampsAfter(request_timestamps, now)
  /\ SERVING_POOL = <<>>
  /\ last_reset_date' = DateAfterRollover(today, last_reset_date)
  /\ api_call_count' = count
  /\ ~ShouldGenerate(QUIZ_CACHE, count)
  /\ QUIZ_CACHE # <<>>
  /\ SERVING_POOL' = Front(shuffled)
  /\ QUIZ_CACHE' = StockAfterBatch(QUIZ_CACHE)
  /\ result' = Seen(Ok(Last(shuffled), FALSE, <<>>), now)
  /\ clock' = now /\ day' = today
  /\ BurstStep(now, TRUE)
  /\ RecentStep(now, TRUE)
  /\ CallsStep(today, FALSE)
  /\ ScenarioStep(today, TRUE)
  /\ drawn' = <<Last(shuffled)>>
  /\ UNCHANGED <<threads, boot>>

\* what time.time() and date.today() may return next
Times == clock..MaxTime
Days == day..MaxDay

Next ==
  \/ \E now \in Times, today \in Days : Reject(now, today)
  \/ \E now \in Times, today \in Days : ServeFromPool(now, today)
  \/ \E now \in Times, today \in Days, raised \in BOOLEAN, raw \in RawTexts :
       Generate(now, today, raised, raw)
  \/ \E now \in Times, today \in Days : Exhausted(now, today)
  \/ \E now \in Times, today \in Days, shuffled \in Shuffles(QUIZ_CACHE) :
       Batch(now, today, shuffled)

Spec == Init /\ [][Next]_vars

----------------------------------------------------------------------------
(* SpecThreads: app.run serves each request in a thread of its own         *)
(* (WebAPI.py:118) and generate_quiz takes no lock, so the statements of   *)
(* two requests interleave.  Each action is one statement of the handler,  *)
(* or one read or one write of a global where a statement does both.       *)

\* the thread's request is over: the response goes out, the locals are gone
Return(t, r) ==
  /\ result' = r
  /\ pc' = [pc EXCEPT ![t] = "idle"]
  /\ loc' = [loc EXCEPT ![t] = NoLocals]

Goto(t, label) == pc' = [pc EXCEPT ![t] = label]

\* WebAPI.py:55  current_time = time.time()
T_Begin(t, now) ==
  /\ pc[t] = "idle"
  /\ started < MaxStarted
  /\ started' = started + 1
  /\ clock' = now
  /\ loc' = [loc EXCEPT ![t].current_time = now]
  /\ Goto(t, "filter")
  /\ UNCHANGED <<request_timestamps, api_call_count, last_reset_date, QUIZ_CACHE,
                 SERVING_POOL, day, result, history, boot>>

\* WebAPI.py:56  the list comprehension reads request_timestamps
T_Filter(t) ==
  /\ pc[t] = "filter"
  /\ loc' = [loc EXCEPT ![t].filtered = Purge(request_timestamps, loc[t].current_time)]
  /\ Goto(t, "store")
  /\ UNCHANGED <<request_timestamps, api_call_count, last_reset_date, QUIZ_CACHE,
                 SERVING_POOL, clock, day, result, history, boot, started>>

\* WebAPI.py:56  request_timestamps = <the filtered list>
T_Store(t) ==
  /\ pc[t] = "store"
  /\ request_timestamps' = loc[t].filtered
  /\ loc' = [loc EXCEPT ![t].filtered = <<>>]
  /\ Goto(t, "ratecheck")
  /\ UNCHANGED <<api_call_count, last_reset_date, QUIZ_CACHE, SERVING_POOL, clock,
                 day, result, history, boot, started>>

\* WebAPI.py:57-59  the rate check and its 429
T_RateCheck(t) ==
  /\ pc[t] = "ratecheck"
  /\ IF RateLimited(request_timestamps)
     THEN Return(t, RateLimitError)
     ELSE Goto(t, "record") /\ UNCHANGED <<result, loc>>
  /\ UNCHANGED <<request_timestamps, api_call_count, last_reset_date, QUIZ_CACHE,
                 SERVING_POOL, clock, day, history, boot, started>>

\* WebAPI.py:60  request_timestamps.append(current_time)
T_Record(t) ==
  /\ pc[t] = "record"
  /\ request_timestamps' = Append(request_timestamps, loc[t].current_time)
  /\ Goto(t, "poolcheck")
  /\ UNCHANGED <<api_call_count, last_reset_date, QUIZ_CACHE, SERVING_POOL, clock,
                 day, result, history, boot, loc, started>>

\* WebAPI.py:63  if SERVING_POOL:
T_PoolCheck(t) ==
  /\ pc[t] = "poolcheck"
  /\ Goto(t, IF SERVING_POOL # <<>> THEN "pop" ELSE "today")
  /\ UNCHANGED <<request_timestamps, api_call_count, last_reset_date, QUIZ_CACHE,
                 SERVING_POOL, clock, day, result, history, boot, loc, started>>

\* list.pop() on the global SERVING_POOL and the return of what it gave:
\* IndexError, raised outside any try block, when the list is empty
PopAndReturn(t) ==
  IF SERVING_POOL = <<>>
  THEN Return(t, Unhandled) /\ UNCHANGED SERVING_POOL
  ELSE Return(t, Ok(Last(SERVING_POOL), FALSE, <<>>)) /\ SERVING_POOL' = Front(SERVING_POOL)

\* WebAPI.py:65-66  quiz = SERVING_POOL.pop(); return jsonify(quiz)
T_Pop(t) ==
  /\ pc[t] = "pop"
  /\ PopAndReturn(t)
  /\ UNCHANGED <<request_timestamps, api_call_count, last_reset_date, QUIZ_CACHE,
                 clock, day, history, boot, started>>

\* WebAPI.py:70-71  today = date.today(); if today > last_reset_date:
T_Today(t, today) ==
  /\ pc[t] = "today"
  /\ day' = today
  /\ IF NewDay(today, last_reset_date)
     THEN Goto(t, "reset_count") /\ loc' = [loc EXCEPT ![t].today = today]
     ELSE Goto(t, "decide") /\ UNCHANGED loc
  /\ UNCHANGED <<request_timestamps, api_call_count, last_reset_date, QUIZ_CACHE,
                 SERVING_POOL, clock, result, history, boot, started>>

\* WebAPI.py:72  api_call_count = 0
T_ResetCount(t) ==
  /\ pc[t] = "reset_count"
  /\ api_call_count' = 0
  /\ Goto(t, "reset_date")
  /\ UNCHANGED <<request_timestamps, last_reset_date, QUIZ_CACHE, SERVING_POOL,
                 clock, day, result, history, boot, loc, started>>

\* WebAPI.py:73  last_reset_date = today
T_ResetDate(t) ==
  /\ pc[t] = "reset_date"
  /\ last_reset_date' = loc[t].today
  /\ loc' = [loc EXCEPT ![t].today = 0]
  /\ Goto(t, "decide")
  /\ UNCHANGED <<request_timestamps, api_call_count, QUIZ_CACHE, SERVING_POOL,
                 clock, day, result, history, boot, started>>

\* WebAPI.py:76  if len(QUIZ_CACHE) < SET_SIZE and api_call_count < DAILY_API_LIMIT:
T_Decide(t) ==
  /\ pc[t] = "decide"
  /\ Goto(t, IF ShouldGenerate(QUIZ_CACHE, api_call_count) THEN "reserve" ELSE "else")
  /\ UNCHANGED <<request_timestamps, api_call_count, last_reset_date, QUIZ_CACHE,
                 SERVING_POOL, clock, day, result, history, boot, loc, started>>

\* WebAPI.py:79  api_call_count += 1, the read
T_ReserveLoad(t) ==
  /\ pc[t] = "reserve"
  /\ loc' = [loc EXCEPT ![t].count = api_call_count]
  /\ Goto(t, "reserve_store")
  /\ UNCHANGED <<request_timestamps, api_call_count, last_reset_date, QUIZ_CACHE,
                 SERVING_POOL, clock, day, result, history, boot, started>>

\* WebAPI.py:79  api_call_count += 1, the write
T_ReserveStore(t) ==
  /\ pc[t] = "reserve_store"
  /\ api_call_count' = loc[t].count + 1
  /\ loc' = [loc EXCEPT ![t].count = 0]
  /\ Goto(t, "call")
  /\ UNCHANGED <<request_timestamps, last_reset_date, QUIZ_CACHE, SERVING_POOL,
                 clock, day, result, history, boot, started>>

\* WebAPI.py:83-102  the upstream call comes back (raised, or with raw), the
\* text is parsed, and the quiz is appended and returned, or 500 is
\* returned.  The thread waits in "call" while the generator works.
T_Generate(t, raised, raw) ==
  LET parsed == ExtractQuiz(raw) IN
  /\ pc[t] = "call"
  /\ QUIZ_CACHE' = StockAfter(QUIZ_CACHE, raised, parsed)
  /\ Return(t, IF ~raised /\ parsed.ok
               THEN Ok(parsed.value, TRUE, <<>>)
               ELSE GenerationError(raised, <<>>))
  /\ UNCHANGED <<request_timestamps, api_call_count, last_reset_date, SERVING_POOL,
                 clock, day, history, boot, started>>

\* WebAPI.py:104-105  if not QUIZ_CACHE: the exhaustion 429
T_Else(t) ==
  /\ pc[t] = "else"
  /\ IF QUIZ_CACHE = <<>>
     THEN Return(t, ExhaustedError)
     ELSE Goto(t, "copy") /\ UNCHANGED <<result, loc>>
  /\ UNCHANGED <<request_timestamps, api_call_count, last_reset_date, QUIZ_CACHE,
                 SERVING_POOL, clock, day, history, boot, started>>

\* WebAPI.py:108  SERVING_POOL = QUIZ_CACHE.copy()
T_Copy(t) ==
  /\ pc[t] = "copy"
  /\ SERVING_POOL' = QUIZ_CACHE
  /\ Goto(t, "shuffle")
  /\ UNCHANGED <<request_timestamps, api_call_count, last_reset_date, QUIZ_CACHE,
                 clock, day, result, history, boot, loc, started>>

\* WebAPI.py:109  random.shuffle(SERVING_POOL), on whatever list the global names now
T_Shuffle(t, shuffled) ==
  /\ pc[t] = "shuffle"
  /\ shuffled \in Shuffles(SERVING_POOL)
  /\ SERVING_POOL' = shuffled
  /\ Goto(t, "pop_batch")
  /\ UNCHANGED <<request_timestamps, api_call_count, last_reset_date, QUIZ_CACHE,
                 clock, day, result, history, boot, loc, started>>

\* WebAPI.py:111-113  quiz = SERVING_POOL.pop(); return jsonify(quiz)
T_PopBatch(t) ==
  /\ pc[t] = "pop_batch"
  /\ PopAndReturn(t)
  /\ UNCHANGED <<request_timestamps, api_call_count, last_reset_date, QUIZ_CACHE,
                 clock, day, history, boot, started>>

NextThreads ==
  \/ \E t \in Threads, now \in Times : T_Begin(t, now)
  \/ \E t \in Threads : T_Filter(t)
  \/ \E t \in Threads : T_Store(t)
  \/ \E t \in Threads : T_RateCheck(t)
  \/ \E t \in Threads : T_Record(t)
  \/ \E t \in Threads : T_PoolCheck(t)
  \/ \E t \in Threads : T_Pop(t)
  \/ \E t \in Threads, today \in Days : T_Today(t, today)
  \/ \E t \in Threads : T_ResetCount(t)
  \/ \E t \in Threads : T_ResetDate(t)
  \/ \E t \in Threads : T_Decide(t)
  \/ \E t \in Threads : T_ReserveLoad(t)
  \/ \E t \in Threads : T_ReserveStore(t)
  \/ \E t \in Threads, raised \in BOOLEAN, raw \in RawTexts : T_Generate(t, raised, raw)
  \/ \E t \in Threads : T_Else(t)
  \/ \E t \in Threads : T_Copy(t)
  \/ \E t \in Threads, shuffled \in Shuffles(SERVING_POOL) : T_Shuffle(t, shuffled)
  \/ \E t \in Threads : T_PopBatch(t)

\* The server after three requests handled one at a time (a state of Spec):
\* "a" and "b" generated at time 0, then, at time 2, a batch built and "a"
\* served from it, which leaves "b" in the pool.
Warm ==
  /\ request_timestamps = <<2>>
  /\ api_call_count = 2
  /\ last_reset_date = 0
  /\ QUIZ_CACHE = <<"a", "b">>
  /\ SERVING_POOL = <<"b">>
  /\ clock = 2
  /\ day = 0
  /\ result = [Ok("a", FALSE, <<>>) EXCEPT !.countBefore = 2, !.found = 2, !.gap = 2]
  /\ drawn = <<"a">>
  /\ scenario = 3
  /\ scenarioDay = 0
  /\ burstStart = 2
  /\ burst = <<TRUE>>
  /\ recent = <<2>>
  /\ callsOnDay = 2
  /\ Loaded
  /\ pc = [t \in Threads |-> "idle"]
  /\ loc = [t \in Threads |-> NoLocals]
  /\ started = 0

\* the threads start on a fresh server or on a warm one
InitThreads == Init \/ Warm

SpecThreads == InitThreads /\ [][NextThreads]_vars

----------------------------------------------------------------------------
(* SpecStartup: WebAPIboto3.py from the start of the process.  The module  *)
(* body sets GOOGLE_AI_STUDIO_API_KEY to None and defines                  *)
(* setup_ai_model without calling it (its before_first_request decorator   *)
(* is commented out, line 38); only the __main__ block calls it.           *)

\* WebAPIboto3.py:19-90  the module body has run, nothing else has
InitStartup ==
  /\ Fresh
  /\ process = "off"
  /\ GOOGLE_AI_STUDIO_API_KEY = "None"
  /\ model = "undefined"

\* WebAPIboto3.py:179-183, 39-70  python WebAPIboto3.py: setup_ai_model(), then
\* app.run.  fetched: SSM returned the parameter; configured: genai.configure
\* and GenerativeModel returned.  Any exception ends in exit().
StartMain(fetched, configured) ==
  /\ process = "off"
  /\ GOOGLE_AI_STUDIO_API_KEY' = IF fetched THEN "key" ELSE "None"
  /\ model' = IF fetched /\ configured THEN "loaded" ELSE "undefined"
  /\ process' = IF fetched /\ configured THEN "main" ELSE "exited"
  /\ UNCHANGED <<request_timestamps, api_call_count, last_reset_date, QUIZ_CACHE,
                 SERVING_POOL, clock, day, result, history, threads>>

\* WebAPIboto3.py:188-192  the Lambda runtime imports the module and calls
\* lambda_handler, which hands the event to the Flask app
StartLambda ==
  /\ process = "off"
  /\ process' = "lambda"
  /\ UNCHANGED <<request_timestamps, api_call_count, last_reset_date, QUIZ_CACHE,
                 SERVING_POOL, clock, day, result, history, threads,
                 GOOGLE_AI_STUDIO_API_KEY, model>>

\* the app takes requests
Serving == process \in {"main", "lambda"}

\* WebAPIboto3.py:96-98  a request finds the key missing and is answered 500
NotInitialized ==
  /\ Serving
  /\ GOOGLE_AI_STUDIO_API_KEY = "None"
  /\ result' = NotInitializedError
  /\ UNCHANGED <<request_timestamps, api_call_count, last_reset_date, QUIZ_CACHE,
                 SERVING_POOL, clock, day, history, threads, boot>>

\* WebAPIboto3.py:96  the request passes the test of the key
Initialized == Serving /\ GOOGLE_AI_STUDIO_API_KEY # "None"

NextStartup ==
  \/ \E fetched \in BOOLEAN, configured \in BOOLEAN : StartMain(fetched, configured)
  \/ StartLambda
  \/ NotInitialized
  \/ \E now \in Times, today \in Days : Initialized /\ Reject(now, today)
  \/ \E now \in Times, today \in Days : Initialized /\ ServeFromPool(now, today)
  \/ \E now \in Times, today \in Days, raised \in BOOLEAN, raw \in RawTexts :
       Initialized /\ Generate(now, today, raised, raw)
  \/ \E now \in Times, today \in Days : Initialized /\ Exhausted(now, today)
  \/ \E now \in Times, today \in Days, shuffled \in Shuffles(QUIZ_CACHE) :
       Initialized /\ Batch(now, today, shuffled)

SpecStartup == InitStartup /\ [][NextStartup]_vars

----------------------------------------------------------------------------
(* Claims *)

\* how many times x occurs in the list s
Count(s, x) == Cardinality({i \in 1..Len(s) : s[i] = x})
\* the items of a list
Items(s) == {s[i] : i \in 1..Len(s)}
\* the request whose response is result was admitted by the rate limit
Admitted(r) == r.code # 0 /\ r.error # "rate"

\* C1: in a burst that starts at a limiter with no live timestamp, that is in
\* MINUTE_LIMIT + 1 requests at non-decreasing times all less than
\* MINUTE_WINDOW after the first, the first MINUTE_LIMIT requests are admitted
\* and the last one is rejected, whatever stock, pool and budget are.
C1_BurstRejectsLast ==
  \A i \in 1..Len(burst) : burst[i] = (i <= MINUTE_LIMIT)

\* the last request of a full burst has been rejected with 429, with quizzes in stock
C1_Witness ==
  /\ Len(burst) = MINUTE_LIMIT + 1
  /\ result.error = "rate" /\ result.code = 429
  /\ QUIZ_CACHE # <<>>

\* C2: with api_call_count = DAILY_API_LIMIT reserved on date D, a request on
\* date D makes no upstream call and leaves the counter at DAILY_API_LIMIT;
\* the first request on date D + 1 that finds the pool empty and the stock
\* below SET_SIZE makes an upstream call and leaves the counter at 1 and
\* last_reset_date at D + 1.
C2_DailyBudget ==
  [][ api_call_count = DAILY_API_LIMIT =>
        /\ day' = last_reset_date =>
             ~result'.called /\ api_call_count' = DAILY_API_LIMIT
        /\ ( /\ day' = last_reset_date + 1
             /\ Admitted(result')
             /\ SERVING_POOL = <<>>
             /\ Len(QUIZ_CACHE) < SET_SIZE )
           => /\ result'.called
              /\ api_call_count' = 1
              /\ last_reset_date' = day' ]_vars

\* a request found the budget of the day before spent and called the generator
C2_Witness ==
  /\ result.called
  /\ result.countBefore = DAILY_API_LIMIT
  /\ api_call_count = 1
  /\ last_reset_date = day

\* C3: no request both appends to QUIZ_CACHE and takes from SERVING_POOL; a
\* request answered 200 either appends the quiz it returns to the stock and
\* leaves the pool alone, or leaves the stock alone and takes the quiz off
\* the end of the pool it found, or of a new batch (a permutation of the
\* stock) when it found the pool empty.
C3_StockPoolExclusive ==
  [][ /\ ~(QUIZ_CACHE' # QUIZ_CACHE /\ SERVING_POOL' # SERVING_POOL)
      /\ result'.code = 200 =>
           \/ /\ QUIZ_CACHE' = Append(QUIZ_CACHE, result'.quiz)
              /\ SERVING_POOL' = SERVING_POOL
           \/ /\ QUIZ_CACHE' = QUIZ_CACHE
              /\ SERVING_POOL # <<>>
              /\ SERVING_POOL = Append(SERVING_POOL', result'.quiz)
           \/ /\ QUIZ_CACHE' = QUIZ_CACHE
              /\ SERVING_POOL = <<>>
              /\ \A q \in Items(QUIZ_CACHE) :
                   Count(Append(SERVING_POOL', result'.quiz), q) = Count(QUIZ_CACHE, q)
              /\ Len(SERVING_POOL') + 1 = Len(QUIZ_CACHE) ]_vars

\* a request built a batch from a stock of two different quizzes and served one
C3_Witness ==
  /\ result.code = 200 /\ ~result.called
  /\ drawn = <<result.quiz>>
  /\ Len(QUIZ_CACHE) = 2 /\ QUIZ_CACHE[1] # QUIZ_CACHE[2]
  /\ Len(SERVING_POOL) = 1

\* C4: the quizzes served from a batch, together with what is left of the
\* pool, are the stock the batch was built from, each item once: a batch of
\* N items is drained by exactly N admitted requests, the batching one
\* included; the admitted request that follows finds the pool empty and
\* generates or builds a new batch.
C4_BatchDrawExhaustion ==
  [][ /\ drawn' # <<>> =>
           /\ \A q \in Items(QUIZ_CACHE') \cup Items(drawn') :
                Count(drawn', q) + Count(SERVING_POOL', q) = Count(QUIZ_CACHE', q)
           /\ (SERVING_POOL' = <<>>) = (Len(drawn') = Len(QUIZ_CACHE'))
      /\ (drawn # <<>> /\ Len(drawn) = Len(QUIZ_CACHE) /\ Admitted(result')) =>
           /\ SERVING_POOL = <<>>
           /\ \/ result'.called
              \/ drawn' = <<result'.quiz>> /\ Len(SERVING_POOL') = Len(QUIZ_CACHE) - 1
    ]_vars

\* a batch of two different quizzes has been drained by two requests
C4_Witness ==
  /\ Len(drawn) = 2 /\ drawn[1] # drawn[2]
  /\ SERVING_POOL = <<>>
  /\ Len(QUIZ_CACHE) = 2

\* the text of a response holds both braces
HasBraces(text) == "{" \in Items(text) /\ "}" \in Items(text)

\* C5: a request whose generation fails (the upstream call raises, the text
\* has no brace pair, or the span between the braces does not parse) is
\* answered 500, leaves QUIZ_CACHE and SERVING_POOL as they were and keeps
\* its reservation: api_call_count is one more than after the rollover check.
C5_GenerationFailureIsolated ==
  [][ ( /\ result'.called
        /\ \/ result'.raised
           \/ ~HasBraces(result'.text)
           \/ ~ExtractQuiz(result'.text).ok )
      => /\ result'.code = 500
         /\ QUIZ_CACHE' = QUIZ_CACHE
         /\ SERVING_POOL' = SERVING_POOL
         /\ api_call_count' =
              (IF day' > last_reset_date THEN 0 ELSE api_call_count) + 1 ]_vars

\* a generation whose text had braces but did not parse was answered 500,
\* with a quiz in stock
C5_Witness ==
  /\ result.code = 500 /\ result.called /\ ~result.raised
  /\ HasBraces(result.text)
  /\ QUIZ_CACHE # <<>>

\* what the k-th admitted request of the scenario leaves behind
ScenarioState(k) ==
  /\ k \in 1..SET_SIZE =>
       /\ Admitted(result) => result.called /\ result.code = 200
       /\ Len(QUIZ_CACHE) = k /\ api_call_count = k /\ SERVING_POOL = <<>>
  /\ k \in (SET_SIZE + 1)..(2 * SET_SIZE) =>
       /\ Len(QUIZ_CACHE) = SET_SIZE /\ api_call_count = SET_SIZE
       /\ Len(SERVING_POOL) = 2 * SET_SIZE - k
  /\ k = 2 * SET_SIZE + 1 =>
       /\ Len(QUIZ_CACHE) = SET_SIZE /\ api_call_count = SET_SIZE
       /\ Len(SERVING_POOL) = SET_SIZE - 1
  /\ k > SET_SIZE => (Admitted(result) => ~result.called /\ result.code = 200)

\* C6 as stated, on whatever dates the requests come: from empty stock and
\* pool, with every generation succeeding, admitted requests 1..SET_SIZE
\* each generate, request SET_SIZE + 1 batches and pops, request 2 * SET_SIZE
\* drains the pool and request 2 * SET_SIZE + 1 batches again, the counter
\* staying at SET_SIZE (for SET_SIZE = 2: requests 1, 2 | 3 | 4 | 5).
C6_ScenarioAnyDate == scenario >= 1 => ScenarioState(scenario)

\* C6, amended: the same, for requests that all come on one date.
C6_ScenarioOneDate ==
  (scenario >= 1 /\ day = scenarioDay) => ScenarioState(scenario)

\* the last request of the scenario has batched again, all on one date
C6_Witness ==
  /\ scenario = 2 * SET_SIZE + 1
  /\ day = scenarioDay
  /\ Admitted(result)

\* C7: under concurrent requests no two of them generate for the same slot:
\* QUIZ_CACHE never holds more than SET_SIZE quizzes and api_call_count never
\* exceeds DAILY_API_LIMIT.
C7_NoDoubleGenerate ==
  /\ Len(QUIZ_CACHE) <= SET_SIZE
  /\ api_call_count <= DAILY_API_LIMIT

\* C8: under concurrent requests no request pops from an empty SERVING_POOL:
\* every response is 200 with a quiz, 429 for the rate limit or exhaustion,
\* or the 500 of a failed generation with its error body.
C8_PoolRaceFree ==
  result.code # 0 =>
    \/ result.code = 200 /\ result.quiz # NoQuiz
    \/ result.code = 429 /\ result.error \in {"rate", "exhausted"}
    \/ result.code = 500 /\ result.error = "generation"

\* C9 as stated: a request that finds no retained timestamp later than its
\* own (the first of a run of spaced requests, which may be the only one) is
\* admitted.
C9_FirstOfRunAdmitted ==
  [][ (\A i \in 1..Len(request_timestamps) : request_timestamps[i] <= clock')
      => Admitted(result') ]_vars

\* C9, amended: a request that comes more than MINUTE_WINDOW after the
\* request before it is admitted, whatever the limiter holds.
C9_SpacedRequestsAdmitted ==
  [][ clock' - clock > MINUTE_WINDOW => Admitted(result') ]_vars

\* a request that came more than MINUTE_WINDOW after the one before it found
\* the limiter full and was admitted
C9_Witness ==
  /\ result.gap > MINUTE_WINDOW
  /\ result.found = MINUTE_LIMIT
  /\ Admitted(result)
  /\ request_timestamps = <<clock>>

\* C10: a rate-limited request leaves of request_timestamps those less than
\* MINUTE_WINDOW old, does not record its own time, and leaves QUIZ_CACHE,
\* SERVING_POOL, api_call_count and last_reset_date as they were; the
\* limiter holds no more after it than before.
C10_RejectedChangesNothing ==
  [][ result'.error = "rate" =>
        /\ \E kept \in SUBSET (1..Len(request_timestamps)) :
             /\ kept = {i \in 1..Len(request_timestamps) :
                          clock' - request_timestamps[i] < MINUTE_WINDOW}
             /\ Len(request_timestamps') = Cardinality(kept)
             /\ \A t \in Items(request_timestamps) :
                  Count(request_timestamps', t)
                    = Cardinality({i \in kept : request_timestamps[i] = t})
        /\ UNCHANGED <<QUIZ_CACHE, SERVING_POOL, api_call_count, last_reset_date>>
    ]_vars

\* a request was rejected by a full limiter while quizzes were in the pool
\* and the date had moved on
C10_Witness ==
  /\ result.error = "rate"
  /\ result.found = MINUTE_LIMIT
  /\ Len(request_timestamps) = MINUTE_LIMIT
  /\ SERVING_POOL # <<>>
  /\ day > last_reset_date

\* no request is in flight
Quiescent == \A t \in Threads : pc[t] = "idle"

\* C11: after every request request_timestamps holds at most MINUTE_LIMIT
\* entries.  The threads of the server break it: two requests can both pass
\* the test of line 57 before either has appended its timestamp.
C11_RateLimiterThreads ==
  Quiescent => Len(request_timestamps) <= MINUTE_LIMIT

\* C11, with one request at a time and non-decreasing request times: after
\* every request request_timestamps holds at most MINUTE_LIMIT entries, each
\* less than MINUTE_WINDOW older than the request; hence no more than
\* MINUTE_LIMIT admitted requests fall into any MINUTE_WINDOW seconds (the
\* admitted requests less than MINUTE_WINDOW older than an admitted one,
\* itself included, number at most MINUTE_LIMIT).
C11_RateLimiterInvariant ==
  /\ Len(request_timestamps) <= MINUTE_LIMIT
  /\ \A i \in 1..Len(request_timestamps) :
       clock - request_timestamps[i] < MINUTE_WINDOW
  /\ Len(recent) <= MINUTE_LIMIT

\* the limiter is full of requests admitted at different times, after an
\* older timestamp has been purged
C11_Witness ==
  /\ Len(request_timestamps) = MINUTE_LIMIT
  /\ request_timestamps[1] < request_timestamps[MINUTE_LIMIT]
  /\ request_timestamps[1] >= MINUTE_WINDOW
  /\ recent = request_timestamps

\* s is the beginning of t
IsPrefix(s, t) == Len(s) <= Len(t) /\ SubSeq(t, 1, Len(s)) = s

\* C12: QUIZ_CACHE is append-only: every request leaves the stock it found
\* as a prefix of the stock it leaves (so the stock of any later state
\* begins with the stock of any earlier one), and a request that builds a
\* batch or draws from the pool leaves the stock exactly as it was.
C12_StockAppendOnly ==
  [][ /\ IsPrefix(QUIZ_CACHE, QUIZ_CACHE')
      /\ (result'.code = 200 /\ ~result'.called) => QUIZ_CACHE' = QUIZ_CACHE
      /\ SERVING_POOL' # SERVING_POOL => QUIZ_CACHE' = QUIZ_CACHE ]_vars

\* a batch shuffled into the opposite order has been drained, and the stock
\* is still in the order it was generated in
C12_Witness ==
  /\ Len(QUIZ_CACHE) = SET_SIZE
  /\ QUIZ_CACHE[1] # QUIZ_CACHE[SET_SIZE]
  /\ Len(drawn) = SET_SIZE
  /\ drawn[1] = QUIZ_CACHE[1] /\ drawn[SET_SIZE] = QUIZ_CACHE[SET_SIZE]
  /\ SERVING_POOL = <<>>

\* C13: with one request at a time, QUIZ_CACHE never holds more than
\* SET_SIZE items, and the generator is called only by a request that finds
\* SERVING_POOL empty, fewer than SET_SIZE items in stock and, at its test
\* of the budget (after the rollover check), api_call_count below
\* DAILY_API_LIMIT.
C13_StockBounded ==
  /\ [](Len(QUIZ_CACHE) <= SET_SIZE)
  /\ [][ result'.called =>
           /\ SERVING_POOL = <<>>
           /\ Len(QUIZ_CACHE) < SET_SIZE
           /\ (IF day' > last_reset_date THEN 0 ELSE api_call_count)
                < DAILY_API_LIMIT ]_vars

\* the generation that filled the stock
C13_Witness ==
  /\ result.called /\ result.code = 200
  /\ Len(QUIZ_CACHE) = SET_SIZE
  /\ SERVING_POOL = <<>>

\* C14: with one request at a time, api_call_count stays within
\* 0..DAILY_API_LIMIT; the counter is reset only by a request whose today is
\* strictly later than last_reset_date, and that request sets
\* last_reset_date to today (so a date sees at most one reset);
\* last_reset_date never decreases; and no date sees more than
\* DAILY_API_LIMIT upstream calls.
C14_BudgetCounter ==
  /\ [](/\ 0 <= api_call_count /\ api_call_count <= DAILY_API_LIMIT
        /\ callsOnDay <= DAILY_API_LIMIT)
  /\ [][ /\ last_reset_date' >= last_reset_date
         /\ ( \/ api_call_count' #
                   api_call_count + (IF result'.called THEN 1 ELSE 0)
              \/ last_reset_date' # last_reset_date )
            => /\ day' > last_reset_date
               /\ last_reset_date' = day'
               /\ api_call_count' = (IF result'.called THEN 1 ELSE 0) ]_vars

\* a request on a later date found the counter at the limit, reset it and
\* made the first call of the new date
C14_Witness ==
  /\ result.called
  /\ result.countBefore = DAILY_API_LIMIT
  /\ api_call_count = 1 /\ callsOnDay = 1
  /\ last_reset_date = day /\ day > 0

\* C15: a request is answered with the exhaustion error exactly when it is
\* admitted and finds SERVING_POOL empty, QUIZ_CACHE empty and, after the
\* rollover check, api_call_count at DAILY_API_LIMIT or above; the request
\* answers 429, makes no upstream call and leaves QUIZ_CACHE, SERVING_POOL
\* and api_call_count as they were.
C15_ExhaustionError ==
  [][ /\ (result'.error = "exhausted") <=>
           /\ Admitted(result')
           /\ SERVING_POOL = <<>>
           /\ QUIZ_CACHE = <<>>
           /\ (IF day' > last_reset_date THEN 0 ELSE api_call_count)
                >= DAILY_API_LIMIT
      /\ result'.error = "exhausted" =>
           /\ result'.code = 429
           /\ ~result'.called
           /\ callsOnDay' = (IF day' > day THEN 0 ELSE callsOnDay)
           /\ QUIZ_CACHE' = QUIZ_CACHE
           /\ SERVING_POOL' = SERVING_POOL
           /\ api_call_count' = api_call_count ]_vars

\* the budget was spent on failed generations and the request that followed
\* got the exhaustion error
C15_Witness ==
  /\ result.error = "exhausted"
  /\ result.countBefore = DAILY_API_LIMIT
  /\ api_call_count = DAILY_API_LIMIT
  /\ QUIZ_CACHE = <<>> /\ SERVING_POOL = <<>>

\* C16: every item of QUIZ_CACHE is the parsed text of a generation that
\* returned and parsed (the stock changes only by the append of such a
\* value), SERVING_POOL is a sub-multiset of QUIZ_CACHE, so no longer than
\* it, and a quiz answered with 200 is in QUIZ_CACHE at the response.
C16_Provenance ==
  /\ [](/\ Items(QUIZ_CACHE) \subseteq QuizBodies
        /\ \A q \in Items(SERVING_POOL) :
             Count(SERVING_POOL, q) <= Count(QUIZ_CACHE, q)
        /\ Len(SERVING_POOL) <= Len(QUIZ_CACHE)
        /\ result.code = 200 => result.quiz \in Items(QUIZ_CACHE))
  /\ [][ QUIZ_CACHE' # QUIZ_CACHE =>
           /\ result'.called /\ ~result'.raised /\ result'.code = 200
           /\ HasBraces(result'.text)
           /\ ExtractQuiz(result'.text).ok
           /\ result'.quiz = ExtractQuiz(result'.text).value
           /\ QUIZ_CACHE' = Append(QUIZ_CACHE, result'.quiz) ]_vars

\* the same quiz was generated twice, and one copy is left in the pool
\* after a quiz was served from the batch
C16_Witness ==
  /\ Len(QUIZ_CACHE) = SET_SIZE
  /\ QUIZ_CACHE[1] = QUIZ_CACHE[SET_SIZE]
  /\ SERVING_POOL # <<>>
  /\ result.code = 200 /\ ~result.called

\* C17: no /quiz request is handled, through either entry point, while the
\* key and the model have not been loaded.  The Lambda entry point breaks
\* it: lambda_handler never calls setup_ai_model, so every request is
\* taken and answered 500 with the key still None.
C17_NoRequestWithoutCredential ==
  result # NoResult =>
    GOOGLE_AI_STUDIO_API_KEY # "None" /\ model = "loaded"

\* C17, the half that holds: a process in which setup_ai_model failed has
\* exited, and a server started from __main__ has the key and the model.
C17_MainLoadsOrExits ==
  /\ process = "exited" => result = NoResult
  /\ process = "main" => GOOGLE_AI_STUDIO_API_KEY = "key" /\ model = "loaded"

\* C18: an admitted request that finds SERVING_POOL empty runs the rollover
\* check, whether or not it goes on to generate: on a date later than
\* last_reset_date it restarts api_call_count (at 0, or 1 with its own call)
\* and sets last_reset_date to today.  A rejected request and a request
\* served from the pool leave api_call_count and last_reset_date as they
\* were, whatever the date.
C18_RolloverOnlyOnEmptyPool ==
  [][ LET admitted == Admitted(result')
          own == IF result'.called THEN 1 ELSE 0
      IN /\ (admitted /\ SERVING_POOL = <<>>) =>
              IF day' > last_reset_date
              THEN last_reset_date' = day' /\ api_call_count' = own
              ELSE /\ last_reset_date' = last_reset_date
                   /\ api_call_count' = api_call_count + own
         /\ (~admitted \/ SERVING_POOL # <<>>) =>
              /\ last_reset_date' = last_reset_date
              /\ api_call_count' = api_call_count ]_vars

\* a request on a later date was served from the pool: the counter still
\* holds the calls of the earlier date
C18_Witness ==
  /\ day > last_reset_date
  /\ result.code = 200 /\ ~result.called
  /\ result.countBefore = SET_SIZE
  /\ api_call_count = SET_SIZE

\* C19: once QUIZ_CACHE holds SET_SIZE items, api_call_count is never
\* incremented again and the stock never changes again.  The threads of
\* the server break it: a request that passed the test of line 76 while the
\* stock was one short reserves, calls and appends after another request
\* has filled the stock.
C19_NoCallOnceFull ==
  [][ Len(QUIZ_CACHE) >= SET_SIZE =>
        /\ QUIZ_CACHE' = QUIZ_CACHE
        /\ api_call_count' <= api_call_count ]_vars

\* C19, with one request at a time: once QUIZ_CACHE holds SET_SIZE items no
\* request calls the generator, on any date; api_call_count is not
\* incremented, the stock does not change, and a 200 response carries one
\* of its SET_SIZE items.
C19_FullStockIsFinal ==
  [][ Len(QUIZ_CACHE) >= SET_SIZE =>
        /\ ~result'.called
        /\ QUIZ_CACHE' = QUIZ_CACHE /\ Len(QUIZ_CACHE) = SET_SIZE
        /\ api_call_count' <= api_call_count
        /\ result'.code = 200 => result'.quiz \in Items(QUIZ_CACHE) ]_vars

\* C20: with one request at a time, once QUIZ_CACHE is non-empty it stays
\* non-empty and no request is answered with the exhaustion error: an
\* admitted request that does not call the generator is answered 200 with a
\* quiz of the stock, and a request that is not answered 200 was either
\* rejected by the rate limit (429) or failed in its generation (500).
C20_NoExhaustionOnceStocked ==
  [][ QUIZ_CACHE # <<>> =>
        /\ QUIZ_CACHE' # <<>>
        /\ result'.error # "exhausted"
        /\ (Admitted(result') /\ ~result'.called) =>
             result'.code = 200 /\ result'.quiz \in Items(QUIZ_CACHE)
        /\ result'.code # 200 =>
             \/ result'.code = 429 /\ result'.error = "rate"
             \/ /\ result'.code = 500 /\ result'.error = "generation"
                /\ result'.called ]_vars

\* the budget is spent and the stock is short, and the request was served
\* from a batch of what the stock holds
C20_Witness ==
  /\ QUIZ_CACHE # <<>> /\ Len(QUIZ_CACHE) < SET_SIZE
  /\ result.countBefore = DAILY_API_LIMIT
  /\ api_call_count = DAILY_API_LIMIT
  /\ result.code = 200 /\ ~result.called

====
